---- MODULE Spec2Model ----
(***************************************************************************)
(* Model of tcp_epoll_server.cpp: a supervisor thread (main, the           *)
(* TCP_Server constructor and destructor) and the dispatcher thread        *)
(* (TCP_Server::event_worker) that owns the listener, the epoll instance   *)
(* and client_fd_list.  The kernel is modelled by a descriptor table with  *)
(* lowest-free-number allocation, an epoll interest set and a count of     *)
(* connections pending on the listener.                                    *)
(***************************************************************************)
EXTENDS Integers, Sequences, FiniteSets, TLC

\* ---------------------------------------------------------------- bounds
\* highest descriptor number of the process (its descriptor limit - 1)
MaxFd == 6
\* connections that may wait on the listener at once
MaxPending == 2
\* events one epoll_wait hands back in the model (the code allows up to 32)
MaxBatch == 2
\* cap on entries of client_fd_list plus pending connections
MaxList == 3

\* ------------------------------------------------------------- constants
tcp_epoll_max_events == 32
BufSize == 1024
QuitSize == 6
QuitPrefixLen == 4

FDs == 0..MaxFd
NoFd == -1

QuitWord == <<"q", "u", "i", "t">>

\* the payloads a read may return (each far below BufSize bytes)
Payloads ==
  { <<"q", "u", "i", "t">>,
    <<"q", "u", "i", "t", "CR", "LF">>,
    <<"q", "u", "i", "t", "X", "LF">>,
    <<"q", "u", "i", "t", "CR", "LF", "LF">>,
    <<"h", "e", "l", "l", "o", "LF">>,
    <<"x">> }

\* event masks epoll_wait may report for a client and for the listener
ClientMasks == { {"IN"}, {"IN", "HUP"}, {"ERR", "HUP"}, {"RDHUP"} }
ListenerMasks == { {"IN"}, {"ERR"} }

VARIABLES
  mpc,            \* position of the supervisor thread (main)
  wpc,            \* position of the dispatcher thread (event_worker)
  AppRunning,     \* global atomic<bool> AppRunning
  isRunning,      \* TCP_Server::isRunning
  worker_state,   \* TCP_Server::worker_state
  started,        \* epoll_worker holds a started (joinable) thread
  socketfd,       \* TCP_Server::socketfd
  epollfd,        \* local epollfd of event_worker
  fdtab,          \* kernel: what each descriptor number refers to
  armed,          \* kernel: descriptors in the epoll interest list
  pending,        \* kernel: connections waiting in the listener's backlog
  client_fd_list, \* TCP_Server::client_fd_list
  events,         \* events[i..n-1]: the entries of the batch not yet handled
  last,           \* what the most recent event handler did
  aliveSeen,      \* what main's isAlive() check returned
  setupFail       \* the setup call that failed, if any

vars == << mpc, wpc, AppRunning, isRunning, worker_state, started, socketfd,
           epollfd, fdtab, armed, pending, client_fd_list, events, last,
           aliveSeen, setupFail >>

\* ----------------------------------------------------------- kernel model
Min(S) == CHOOSE x \in S : \A y \in S : x <= y

FreeFds(tab) == { f \in FDs : tab[f] = "closed" }

\* socket(), accept() and epoll_create1() return the lowest free number
LowestFree(tab) == IF FreeFds(tab) = {} THEN NoFd ELSE Min(FreeFds(tab))

IsOpen(tab, fd) == fd \in FDs /\ tab[fd] # "closed"

\* close(fd): releases the number; EBADF (no effect) when fd is not open
CloseFd(tab, fd) == IF IsOpen(tab, fd) THEN [tab EXCEPT ![fd] = "closed"] ELSE tab

Range(s) == { s[k] : k \in 1..Len(s) }

Count(s, x) == Cardinality({ k \in 1..Len(s) : s[k] = x })

\* ------------------------------------------------------ pure functions
\* std::find + vector::erase: drop the first occurrence of fd, if any
EraseFirst(list, fd) ==
  IF fd \in Range(list)
    THEN LET k == Min({ j \in 1..Len(list) : list[j] = fd })
         IN  SubSeq(list, 1, k - 1) \o SubSeq(list, k + 1, Len(list))
    ELSE list

\* a quit test that looks at the first four bytes only, whatever the size
IsQuitPrefixOnly(buf) ==
  Len(buf) >= QuitPrefixLen /\ SubSeq(buf, 1, QuitPrefixLen) = QuitWord

\* size == 6 && memcmp("quit", bufin, 4) == 0
IsQuit(buf) ==
  Len(buf) = QuitSize /\ SubSeq(buf, 1, QuitPrefixLen) = QuitWord

\* events & EPOLLERR || events & EPOLLHUP || !(events & EPOLLIN)
IsTerminal(mask) == "ERR" \in mask \/ "HUP" \in mask \/ "IN" \notin mask

\* a fan-out that lacks the sendfd != fd test
FanOutAll(list, fd) == list

\* for (auto sendfd : client_fd_list) if (sendfd != fd) write(sendfd, ...)
FanOut(list, fd) == SelectSeq(list, LAMBDA sendfd : sendfd # fd)

NoLast == [kind |-> "none", fd |-> NoFd, mask |-> {}, buf |-> <<>>, writes |-> <<>>]

NoCheck == [checked |-> FALSE, alive |-> FALSE, failed |-> "none"]

\* the value left by `cout << flush` at the end of a batch: back to the loop test
AfterEvent(rest) == IF rest = <<>> THEN "loop" ELSE "batch"

\* ------------------------------------------------------------------ Init
\* The state when main enters the TCP_Server constructor: AppRunning stored
\* true, the atomics of the object not yet written (indeterminate), stdin
\* either open or closed by whoever started the process.
Init ==
  /\ mpc = "construct"
  /\ wpc = "idle"
  /\ AppRunning = TRUE
  /\ isRunning \in BOOLEAN
  /\ worker_state \in BOOLEAN
  /\ started = FALSE
  /\ socketfd = NoFd
  /\ epollfd = NoFd
  /\ \E in0 \in {"stdio", "closed"} :
       fdtab = [f \in FDs |-> IF f = 0 THEN in0 ELSE IF f <= 2 THEN "stdio" ELSE "closed"]
  /\ armed = {}
  /\ pending = 0
  /\ client_fd_list = <<>>
  /\ events = <<>>
  /\ last = NoLast
  /\ aliveSeen = NoCheck
  /\ setupFail = "none"

\* ------------------------------------------------------------ supervisor
\* TCP_Server::TCP_Server(port): create_and_bind, then start_event_worker
\* when it returned 0.
Construct ==
  /\ mpc = "construct"
  /\ \E sock \in {LowestFree(fdtab), NoFd}, bindOk \in BOOLEAN :
       LET tab1 == IF sock \in FDs THEN [fdtab EXCEPT ![sock] = "listener"] ELSE fdtab
       IN  /\ socketfd' = sock
           /\ IF sock = 0
                THEN \* socket() == 0 is taken for a failure: return -1, no close
                     /\ fdtab' = tab1
                     /\ setupFail' = "socket"
                     /\ UNCHANGED << wpc, isRunning, worker_state, started >>
                ELSE IF sock = NoFd \/ ~bindOk
                  THEN \* bind fails: close(socketfd); return -1
                       /\ fdtab' = CloseFd(tab1, sock)
                       /\ setupFail' = "bind"
                       /\ UNCHANGED << wpc, isRunning, worker_state, started >>
                  ELSE \* start_event_worker
                       /\ fdtab' = tab1
                       /\ worker_state' = FALSE
                       /\ isRunning' = TRUE
                       /\ started' = TRUE
                       /\ wpc' = "listen"
                       /\ UNCHANGED setupFail
  /\ mpc' = "sleep"
  /\ UNCHANGED << AppRunning, epollfd, armed, pending, client_fd_list, events,
                  last, aliveSeen >>

\* main: sleep, then if (!myTCPServer.isAlive()) return -1;
CheckAlive ==
  /\ mpc = "sleep"
  /\ aliveSeen' = [checked |-> TRUE, alive |-> isRunning, failed |-> setupFail]
  /\ mpc' = IF isRunning THEN "spin" ELSE "destruct"
  /\ UNCHANGED << wpc, AppRunning, isRunning, worker_state, started, socketfd,
                  epollfd, fdtab, armed, pending, client_fd_list, events, last,
                  setupFail >>

\* sig_handler: SIGINT stores false into AppRunning; main reads the flag only
\* in its final loop, so the signal is delivered there
SigInt ==
  /\ AppRunning
  /\ mpc = "spin"
  /\ AppRunning' = FALSE
  /\ UNCHANGED << mpc, wpc, isRunning, worker_state, started, socketfd, epollfd,
                  fdtab, armed, pending, client_fd_list, events, last, aliveSeen,
                  setupFail >>

\* main: while (AppRunning.load() == true) {} ; return 0;
SpinExit ==
  /\ mpc = "spin"
  /\ ~AppRunning
  /\ mpc' = "destruct"
  /\ UNCHANGED << wpc, AppRunning, isRunning, worker_state, started, socketfd,
                  epollfd, fdtab, armed, pending, client_fd_list, events, last,
                  aliveSeen, setupFail >>

\* ~TCP_Server -> stop_event_worker: store false, then epoll_worker.join();
\* join on a thread that was never started throws out of the destructor.
StopWorker ==
  /\ mpc = "destruct"
  /\ isRunning' = FALSE
  /\ mpc' = IF started THEN "join" ELSE "terminated"
  /\ UNCHANGED << wpc, AppRunning, worker_state, started, socketfd, epollfd,
                  fdtab, armed, pending, client_fd_list, events, last, aliveSeen,
                  setupFail >>

\* epoll_worker.join() returns once event_worker has returned
JoinReturns ==
  /\ mpc = "join"
  /\ wpc = "exited"
  /\ mpc' = "done"
  /\ started' = FALSE
  /\ UNCHANGED << wpc, AppRunning, isRunning, worker_state, socketfd, epollfd,
                  fdtab, armed, pending, client_fd_list, events, last, aliveSeen,
                  setupFail >>

\* ----------------------------------------------------------- environment
\* a peer completes a handshake with the listening socket
Connect ==
  /\ wpc \in {"epoll_create", "epoll_ctl", "loop", "wait", "batch", "shutdown"}
  /\ IsOpen(fdtab, socketfd)
  /\ fdtab[socketfd] = "listener"
  /\ pending < MaxPending
  /\ Len(client_fd_list) + pending < MaxList
  /\ pending' = pending + 1
  /\ UNCHANGED << mpc, wpc, AppRunning, isRunning, worker_state, started,
                  socketfd, epollfd, fdtab, armed, client_fd_list, events, last,
                  aliveSeen, setupFail >>

\* a peer resets its connection before it was accepted
PeerAbort ==
  /\ pending > 0
  /\ pending' = pending - 1
  /\ UNCHANGED << mpc, wpc, AppRunning, isRunning, worker_state, started,
                  socketfd, epollfd, fdtab, armed, client_fd_list, events, last,
                  aliveSeen, setupFail >>

\* ------------------------------------------------------------ dispatcher
\* event_worker: listen(socketfd, SOMAXCONN)
Listen ==
  /\ wpc = "listen"
  /\ \E ok \in BOOLEAN :
       IF ok THEN wpc' = "epoll_create" /\ UNCHANGED setupFail
             ELSE wpc' = "exited" /\ setupFail' = "listen"
  /\ UNCHANGED << mpc, AppRunning, isRunning, worker_state, started, socketfd,
                  epollfd, fdtab, armed, pending, client_fd_list, events, last,
                  aliveSeen >>

\* event_worker: epollfd = epoll_create1(0)
EpollCreate ==
  /\ wpc = "epoll_create"
  /\ \E fd \in {LowestFree(fdtab), NoFd} :
       /\ epollfd' = fd
       /\ IF fd = NoFd
            THEN wpc' = "exited" /\ setupFail' = "epoll_create" /\ UNCHANGED fdtab
            ELSE /\ wpc' = "epoll_ctl"
                 /\ fdtab' = [fdtab EXCEPT ![fd] = "epoll"]
                 /\ UNCHANGED setupFail
  /\ UNCHANGED << mpc, AppRunning, isRunning, worker_state, started, socketfd,
                  armed, pending, client_fd_list, events, last, aliveSeen >>

\* a setup whose epoll_ctl call does not put the listener into the interest list
ArmListenerSkipped ==
  /\ wpc = "epoll_ctl"
  /\ \E ok \in BOOLEAN :
       IF ok THEN /\ worker_state' = TRUE
                  /\ wpc' = "loop"
                  /\ UNCHANGED << armed, setupFail >>
             ELSE /\ wpc' = "exited"
                  /\ setupFail' = "epoll_ctl"
                  /\ UNCHANGED << armed, worker_state >>
  /\ UNCHANGED << mpc, AppRunning, isRunning, started, socketfd, epollfd, fdtab,
                  pending, client_fd_list, events, last, aliveSeen >>

\* event_worker: epoll_ctl(ADD, socketfd), then worker_state.store(true)
ArmListener ==
  /\ wpc = "epoll_ctl"
  /\ \E ok \in BOOLEAN :
       IF ok THEN /\ armed' = armed \cup {socketfd}
                  /\ worker_state' = TRUE
                  /\ wpc' = "loop"
                  /\ UNCHANGED setupFail
             ELSE /\ wpc' = "exited"
                  /\ setupFail' = "epoll_ctl"
                  /\ UNCHANGED << armed, worker_state >>
  /\ UNCHANGED << mpc, AppRunning, isRunning, started, socketfd, epollfd, fdtab,
                  pending, client_fd_list, events, last, aliveSeen >>

\* a loop test that never reads isRunning
LoopCheckBlind ==
  /\ wpc = "loop"
  /\ wpc' = "wait"
  /\ last' = NoLast
  /\ UNCHANGED << mpc, AppRunning, isRunning, worker_state, started, socketfd,
                  epollfd, fdtab, armed, pending, client_fd_list, events,
                  aliveSeen, setupFail >>

\* while ( isRunning.load(memory_order_acquire) == true )
LoopCheck ==
  /\ wpc = "loop"
  /\ wpc' = IF isRunning THEN "wait" ELSE "shutdown"
  /\ last' = NoLast
  /\ UNCHANGED << mpc, AppRunning, isRunning, worker_state, started, socketfd,
                  epollfd, fdtab, armed, pending, client_fd_list, events,
                  aliveSeen, setupFail >>

\* masks the kernel can report for an armed descriptor: the listener is
\* readable exactly when a connection is pending (level-triggered)
MasksFor(fd) ==
  IF fd = socketfd
    THEN { m \in ListenerMasks : "IN" \in m => pending > 0 }
    ELSE ClientMasks

ReadyEvents == { [fd |-> fd, mask |-> m] : fd \in armed, m \in ClientMasks \cup ListenerMasks }

BatchLimit == IF MaxBatch < tcp_epoll_max_events THEN MaxBatch ELSE tcp_epoll_max_events

\* what one epoll_wait may return: at most one entry per armed descriptor
Batches ==
  UNION { { b \in [1..n -> ReadyEvents] :
              /\ \A k \in 1..n : b[k].mask \in MasksFor(b[k].fd)
              /\ \A j, k \in 1..n : j # k => b[j].fd # b[k].fd } :
          n \in 0..BatchLimit }

\* n = epoll_wait(epollfd, events, 32, 500); n = 0 is the timeout
Wait ==
  /\ wpc = "wait"
  /\ \E b \in Batches :
       /\ events' = b
       /\ wpc' = AfterEvent(b)
  /\ last' = NoLast
  /\ UNCHANGED << mpc, AppRunning, isRunning, worker_state, started, socketfd,
                  epollfd, fdtab, armed, pending, client_fd_list, aliveSeen,
                  setupFail >>

\* the error branch of the event loop: close(events[i].data.fd)
HandleTerminal ==
  /\ wpc = "batch"
  /\ LET ev == Head(events) IN
       /\ IsTerminal(ev.mask)
       /\ fdtab' = CloseFd(fdtab, ev.fd)
       /\ armed' = armed \ {ev.fd}
       /\ last' = [kind |-> "terminal", fd |-> ev.fd, mask |-> ev.mask,
                   buf |-> <<>>, writes |-> <<>>]
  /\ events' = Tail(events)
  /\ wpc' = AfterEvent(Tail(events))
  /\ UNCHANGED << mpc, AppRunning, isRunning, worker_state, started, socketfd,
                  epollfd, pending, client_fd_list, aliveSeen, setupFail >>

\* a registration test written as the success test of create_and_bind (== 0)
RegistersOnZero(newclientfd) == newclientfd = 0

\* if ( newclientfd > 0 ) client_fd_list.push_back(newclientfd);
Registers(newclientfd) == newclientfd > 0

\* the listener branch: one accept_connection, push_back when it returned > 0
HandleAccept ==
  /\ wpc = "batch"
  /\ LET ev == Head(events)
         infd == LowestFree(fdtab)
     IN
       /\ ~IsTerminal(ev.mask)
       /\ ev.fd = socketfd
       /\ IF pending = 0 \/ infd = NoFd
            THEN \* accept() == -1: EAGAIN, or EMFILE with the table full
                 /\ last' = [kind |-> "accept", fd |-> NoFd, mask |-> ev.mask,
                             buf |-> <<>>, writes |-> <<>>]
                 /\ UNCHANGED << fdtab, armed, pending, client_fd_list >>
            ELSE \E nonblockOk \in BOOLEAN, ctlOk \in BOOLEAN :
                   LET newclientfd == IF nonblockOk /\ ctlOk THEN infd ELSE NoFd
                   IN  /\ fdtab' = [fdtab EXCEPT ![infd] = "client"]
                       /\ pending' = pending - 1
                       /\ armed' = IF nonblockOk /\ ctlOk THEN armed \cup {infd} ELSE armed
                       /\ client_fd_list' =
                            IF Registers(newclientfd) THEN Append(client_fd_list, newclientfd)
                                               ELSE client_fd_list
                       /\ last' = [kind |-> "accept", fd |-> infd, mask |-> ev.mask,
                                   buf |-> <<>>, writes |-> <<>>]
  /\ events' = Tail(events)
  /\ wpc' = AfterEvent(Tail(events))
  /\ UNCHANGED << mpc, AppRunning, isRunning, worker_state, started, socketfd,
                  epollfd, aliveSeen, setupFail >>

\* the client branch: one read; quit closes the sender, any other payload is
\* written to every other entry of client_fd_list, size <= 0 closes the sender
HandleRead ==
  /\ wpc = "batch"
  /\ LET ev == Head(events)
         fd == ev.fd
     IN
       /\ ~IsTerminal(ev.mask)
       /\ fd # socketfd
       /\ \E size \in {-1, 0} \cup { n \in { Len(p) : p \in Payloads } : n <= BufSize } :
          \E bufin \in IF size > 0 THEN { p \in Payloads : Len(p) = size } ELSE { <<>> } :
            IF size > 0
              THEN IF IsQuit(bufin)
                     THEN /\ client_fd_list' = EraseFirst(client_fd_list, fd)
                          /\ fdtab' = CloseFd(fdtab, fd)
                          /\ armed' = armed \ {fd}
                          /\ last' = [kind |-> "quit", fd |-> fd, mask |-> ev.mask,
                                      buf |-> bufin, writes |-> <<>>]
                     ELSE /\ last' = [kind |-> "fanout", fd |-> fd, mask |-> ev.mask,
                                      buf |-> bufin,
                                      writes |-> FanOut(client_fd_list, fd)]
                          /\ UNCHANGED << client_fd_list, fdtab, armed >>
              ELSE /\ client_fd_list' = EraseFirst(client_fd_list, fd)
                   /\ fdtab' = CloseFd(fdtab, fd)
                   /\ armed' = armed \ {fd}
                   /\ last' = [kind |-> "eof", fd |-> fd, mask |-> ev.mask,
                               buf |-> <<>>, writes |-> <<>>]
  /\ events' = Tail(events)
  /\ wpc' = AfterEvent(Tail(events))
  /\ UNCHANGED << mpc, AppRunning, isRunning, worker_state, started, socketfd,
                  epollfd, pending, aliveSeen, setupFail >>

\* after the loop: worker_state.store(false); close(socketfd); close(epollfd)
Shutdown ==
  /\ wpc = "shutdown"
  /\ worker_state' = FALSE
  /\ fdtab' = CloseFd(CloseFd(fdtab, socketfd), epollfd)
  /\ armed' = {}
  /\ wpc' = "exited"
  /\ last' = NoLast
  /\ UNCHANGED << mpc, AppRunning, isRunning, started, socketfd, epollfd,
                  pending, client_fd_list, events, aliveSeen, setupFail >>

\* ------------------------------------------------------------------ Next
WorkerNext ==
  \/ Listen
  \/ EpollCreate
  \/ ArmListener
  \/ LoopCheck
  \/ Wait
  \/ HandleTerminal
  \/ HandleAccept
  \/ HandleRead
  \/ Shutdown

Next ==
  \/ Construct
  \/ CheckAlive
  \/ SigInt
  \/ SpinExit
  \/ StopWorker
  \/ JoinReturns
  \/ Connect
  \/ PeerAbort
  \/ WorkerNext

Spec == Init /\ [][Next]_vars

\* the dispatcher thread keeps being scheduled, and a join whose thread has
\* returned returns
LiveSpec == Spec /\ WF_vars(WorkerNext) /\ WF_vars(JoinReturns)

\* an epoll_wait whose batch reports the listener readable
WaitListenerReadable ==
  /\ Wait
  /\ \E k \in 1..Len(events') : events'[k] = [fd |-> socketfd, mask |-> {"IN"}]

\* level-triggered readiness: a listener that stays readable is reported by
\* epoll_wait again and again
AcceptFairSpec == LiveSpec /\ SF_vars(WaitListenerReadable)

\* ---------------------------------------------------------------- claims
OpenClients == { f \in FDs : fdtab[f] = "client" }

\* the recipients of the last fan-out whose write reached an open connection
Delivered == { f \in Range(last.writes) : fdtab[f] = "client" }

\* the last handler read a payload that is the quit sentinel, spelled out
LastWasQuitPayload ==
  /\ last.kind \in {"quit", "fanout"}
  /\ Len(last.buf) = 6
  /\ SubSeq(last.buf, 1, 4) = <<"q", "u", "i", "t">>

\* C1: after a fan-out of a non-quit payload read from S, every other member
\* of the registry was written exactly once (never zero times, never twice).
C1_FanOutExactlyOnce ==
  last.kind = "fanout" =>
    \A c \in Range(client_fd_list) \ {last.fd} : Count(last.writes, c) = 1

C3_QuitSuppression ==
  LastWasQuitPayload =>
    /\ fdtab[last.fd] = "closed"
    /\ last.fd \notin Range(client_fd_list)
    /\ last.writes = <<>>

\* C4: a read of size > 0 closes the sender if and only if the payload has
\* exactly 6 bytes and starts with quit; any other payload is written to every
\* other registry member and leaves the sender open and the registry as it was.
C4_QuitRuleLiteral ==
  [][ ( /\ wpc = "batch"
        /\ events' = Tail(events)
        /\ last'.kind \in {"quit", "fanout"} )
      =>
      LET S == Head(events).fd
          literal == Len(last'.buf) = 6 /\ SubSeq(last'.buf, 1, 4) = <<"q", "u", "i", "t">>
      IN  /\ fdtab[S] = "client"
          /\ literal <=> fdtab'[S] = "closed"
          /\ literal => last'.writes = <<>>
          /\ ~literal => /\ fdtab' = fdtab
                         /\ client_fd_list' = client_fd_list
                         /\ armed' = armed
                         /\ S \in Range(client_fd_list')
                         /\ Range(last'.writes) = Range(client_fd_list) \ {S} ]_vars

C4_Witness ==
  /\ last.kind = "fanout"
  /\ last.buf = <<"q", "u", "i", "t">>
  /\ last.fd \in Range(client_fd_list)
  /\ fdtab[last.fd] = "client"
  /\ Delivered # {}

\* C5: whenever the dispatcher is at the loop test, every registry member is
\* an open client descriptor armed in the epoll instance.
C5_RegistryInvariant ==
  wpc = "loop" =>
    \A fd \in Range(client_fd_list) : fdtab[fd] = "client" /\ fd \in armed

C7_DescriptorConservation ==
  (wpc = "exited" /\ setupFail = "none") =>
    /\ client_fd_list = <<>>
    /\ \A f \in FDs : fdtab[f] \in {"closed", "stdio"}

\* C8: after an event carrying both error and hangup for a client descriptor,
\* that descriptor is closed and is not a registry member.
C8_IdempotentDisconnect ==
  ( /\ last.kind = "terminal"
    /\ {"ERR", "HUP"} \subseteq last.mask
    /\ last.fd # socketfd ) =>
    /\ fdtab[last.fd] = "closed"
    /\ last.fd \notin Range(client_fd_list)

\* C9: a failed bind, listen, epoll_create or arming of the listener keeps
\* the dispatcher out of its loop, and the isAlive() check main makes after
\* that failure returns false.
C9_StartupFailureReported ==
  /\ setupFail \in {"bind", "listen", "epoll_create", "epoll_ctl"} =>
       wpc \in {"idle", "exited"}
  /\ ( /\ aliveSeen.checked
       /\ aliveSeen.failed \in {"bind", "listen", "epoll_create", "epoll_ctl"} ) =>
       ~aliveSeen.alive

\* C10: the dispatcher never waits for events while its listener is closed: a
\* terminal event on the listener takes it out of the loop.
C10_ListenerTerminalFatal ==
  wpc = "wait" => fdtab[socketfd] = "listener"

\* C11: the registry never holds a descriptor number twice.
C11_NoDuplicates ==
  Cardinality(Range(client_fd_list)) = Len(client_fd_list)

\* a handler step of the batch loop that left a record of the given kinds
HandlerStep(kinds) ==
  /\ wpc = "batch"
  /\ events' = Tail(events)
  /\ last'.kind \in kinds

\* C12: every close call is made on a descriptor that is open at that moment:
\* the close of the error branch, of the quit and read-error branches, of a
\* failed bind, and the two closes of the shutdown path.
C12_SingleClose ==
  [][ /\ HandlerStep({"terminal", "quit", "eof"}) => IsOpen(fdtab, Head(events).fd)
      /\ (mpc = "construct" /\ mpc' = "sleep" /\ setupFail' = "bind" /\ socketfd' # NoFd)
           => fdtab'[socketfd'] = "closed"
      /\ (wpc = "shutdown" /\ wpc' = "exited")
           => IsOpen(fdtab, socketfd) /\ IsOpen(fdtab, epollfd) ]_vars

\* C13: every open client descriptor that is armed in the epoll instance is a
\* registry member, and a descriptor that the listener handler accepted and
\* armed is a member when that handler has returned.
C13_AcceptedMeansRegistered ==
  /\ \A f \in armed : fdtab[f] = "client" => f \in Range(client_fd_list)
  /\ (last.kind = "accept" /\ last.fd \in armed) => last.fd \in Range(client_fd_list)

C13_Witness ==
  /\ last.kind = "accept"
  /\ last.fd \in armed
  /\ fdtab[last.fd] = "client"
  /\ Len(client_fd_list) = 2
  /\ client_fd_list[2] = last.fd

\* C14: a descriptor that accept returned but that could not be made
\* non-blocking or armed is closed and is not put into the registry.
C14_FailedAcceptSetupNoLeak ==
  [][ ( /\ HandlerStep({"accept"})
        /\ last'.fd # NoFd
        /\ last'.fd \notin armed' )
      => /\ fdtab'[last'.fd] = "closed"
         /\ client_fd_list' = client_fd_list
         /\ wpc' \in {"batch", "loop"} ]_vars

\* C15: when the handler of a listener-readable event returns, no connection
\* is left pending (as long as the process has a free descriptor number).
C15_AcceptBurst ==
  [][ (HandlerStep({"accept"}) /\ FreeFds(fdtab') # {}) => pending' = 0 ]_vars

\* C16: a read of size <= 0 closes the sender, leaves it out of the registry,
\* writes to nobody, leaves every other registry member open and registered,
\* and leaves the dispatcher in its loop.
C16_ClientTerminalIsolation ==
  [][ HandlerStep({"eof"}) =>
      LET fd == Head(events).fd IN
        /\ fdtab'[fd] = "closed"
        /\ fd \notin Range(client_fd_list')
        /\ last'.writes = <<>>
        /\ \A c \in Range(client_fd_list) \ {fd} :
             c \in Range(client_fd_list') /\ fdtab'[c] = fdtab[c]
        /\ wpc' \in {"batch", "loop"} ]_vars

\* C17: a fan-out leaves the registry, the descriptor table and the epoll
\* interest set as they were, and makes exactly one write call for every
\* recipient, the closed ones (whose write fails) included.
C17_FanOutFrame ==
  [][ HandlerStep({"fanout"}) =>
      LET S == Head(events).fd IN
        /\ client_fd_list' = client_fd_list
        /\ fdtab' = fdtab
        /\ armed' = armed
        /\ \A c \in Range(client_fd_list) \ {S} : Count(last'.writes, c) = 1 ]_vars

\* C18: when the dispatcher has returned because listen, epoll_create1 or the
\* arming of the listener failed, the listener and the epoll descriptor are
\* closed.
C18_ReleaseOnSetupFailure ==
  (wpc = "exited" /\ setupFail \in {"listen", "epoll_create", "epoll_ctl"}) =>
    \A f \in FDs : fdtab[f] \notin {"listener", "epoll"}

\* C19: the destructor's join is only ever made on a thread that was started:
\* the supervisor never ends in the exception join throws otherwise.
C19_JoinOnlyStarted ==
  /\ mpc # "terminated"
  /\ mpc = "join" => started

\* the handler that ran last took a connection from the backlog and, when it
\* armed the new descriptor, registered it (at wpc = "wait" no handler has run
\* yet in the iteration: LoopCheck clears the record)
AcceptedNow ==
  /\ last.kind = "accept"
  /\ last.fd # NoFd
  /\ last.fd \in armed => last.fd \in Range(client_fd_list)

\* the shutdown flag is set, the listener is gone, or the peers gave up
AcceptStopped ==
  \/ ~isRunning
  \/ ~(socketfd \in FDs /\ fdtab[socketfd] = "listener")
  \/ pending = 0

\* ... or the process has no descriptor number left for accept (EMFILE)
AcceptEscape == AcceptStopped \/ FreeFds(fdtab) = {}

\* C20 as stated: while the shutdown flag is unset and the listener is open,
\* a pending connection is eventually accepted, whatever the state of the
\* descriptor table.
C20_AcceptedWhateverTheTable ==
  /\ (pending > 0 /\ wpc \in {"loop", "batch"}) ~> (wpc = "wait" \/ AcceptStopped)
  /\ (pending > 0 /\ wpc = "wait") ~> (AcceptedNow \/ AcceptStopped)

\* C20 (amended): while the dispatcher runs its loop with a connection pending, it
\* comes back to epoll_wait, and after that wait a listener event accepts a
\* connection from the backlog (and registers it when it could be armed),
\* unless the shutdown flag is set, the listener is closed, the backlog
\* empties or the descriptor table is full.
C20_PendingEventuallyAccepted ==
  /\ (pending > 0 /\ wpc \in {"loop", "batch"}) ~> (wpc = "wait" \/ AcceptEscape)
  /\ (pending > 0 /\ wpc = "wait") ~> (AcceptedNow \/ AcceptEscape)

C20_Witness ==
  /\ last.kind = "accept"
  /\ last.fd \in armed
  /\ last.fd \in Range(client_fd_list)
  /\ pending = 1
  /\ wpc = "loop"
  /\ isRunning

====
